---- MODULE Spec2Model ----
(***************************************************************************)
(* Session scoring state machine of the usePoseDetection hook              *)
(* (frontend/src/hooks/usePoseDetection.js) together with the detector /   *)
(* camera pairs that deliver frames into it, and the scoring functions     *)
(* (frontend/src/utils/poseUtil.js, the motion penalty of the hook, the    *)
(* score and performance-point calculations of the backend) called on      *)
(* their own; createDefaultProfile (frontend/src/utils/userUtils.js) and   *)
(* the POST /api/submit-score handler of the server against the tables     *)
(* they read and write.                                                    *)
(*                                                                         *)
(* Similarities are fixed-point numbers in 1/10000 (10000 = 1.0), motion   *)
(* energies and landmark positions in 1/1000 of the image width, wall      *)
(* clock time in ticks of TickMs milliseconds.  A JavaScript array is a    *)
(* sequence whose element k+1 is the array's element k; a hole or a        *)
(* missing entry reads as Undefined.                                       *)
(***************************************************************************)
EXTENDS Integers, Sequences, FiniteSets

\* ------------------------------------------------------------------ bounds
MaxSteps == 2        \* longest reference sequence explored
MaxTime == 1         \* last clock tick explored
MaxDetectors == 2    \* most detector/camera pairs alive at once
ShortLen == 12       \* a landmark list without the hip indices 23/24

\* ------------------------------------------------------- program constants
FullLen == 33
Threshold == 7500
Hold == 4
\* the consecutive-match counter is followed up to the hold
MaxFramesAbove == Hold
ShoulderSpreadWeight == 6
MissingSim == 5000
FloorSim == 2000

\* a value JavaScript reports as undefined (array hole, index past the end)
Undefined == -1
\* a null ref / null state value
Null == [n |-> -1, pos |-> 0]
\* no scoring function has been called
NoCalc == [op |-> "none"]

Min(a, b) == IF a < b THEN a ELSE b
Max(a, b) == IF a > b THEN a ELSE b
Abs(a) == IF a < 0 THEN -a ELSE a

\* ------------------------------------------------------------ input spaces
\* live poses: the same body translated by pos/1000 (displacement = |p - q|)
LivePositions == {0, 10}
\* raw aggregate similarity of a full live pose against its target
RawLevels == {10000}
\* autoSkip prop, in seconds
AutoSkipValues == {0, 1}

Landmarks ==
    {[n |-> 0, pos |-> 0], [n |-> ShortLen, pos |-> 0]}
        \cup {[n |-> FullLen, pos |-> p] : p \in LivePositions}

\* the reference sequence of n steps, each target given by its translation:
\* consecutive targets lie 100/1000 apart
Reference(n) == [k \in 1..n |-> IF k % 2 = 1 THEN 0 ELSE 100]

ReferenceSequences == {Reference(n) : n \in 0..MaxSteps}

\* ---------------------------------------------------------------- state
VARIABLES
    referenceSequence,    \* prop: the target poses
    autoSkip,             \* prop: seconds before auto-advance, 0 = off
    disableAdvancement,   \* prop: an external controller drives the step
    startDisableAdvancement, \* disableAdvancement as seen by the memoized start
    videoRef,             \* TRUE when the <video> element is mounted
    poseRef,              \* index in detectors of the current Pose, 0 = null
    cameraRef,            \* index in detectors of the current Camera, 0 = null
    detectors,            \* detector/camera pairs able to deliver a result
    lastPoseRef,          \* landmarks of the previous frame, or Null
    framesAboveRef,       \* consecutive frames at or above the threshold
    stepRef,              \* current step index (0-based)
    perStepBestRef,       \* best similarity per step
    stepStartRef,         \* tick at which the current step became active
    isRunning,
    currentPose,
    currentScore,
    currentStep,
    perStepScores,
    windowPose,           \* window.__currentPoseForCanvas
    now,                  \* Date.now(), in ticks
    calc,                 \* the last call of a scoring function: arguments and result
    profiles,             \* table profiles: the usernames taken
    signup,               \* the call of createDefaultProfile in progress
    user_stats,           \* table user_stats: user id -> row or NoRow
    pp_history,           \* table pp_history: the rows inserted
    global_leaderboard,   \* table global_leaderboard: user id -> row or NoRow
    submits               \* the POST /api/submit-score requests in progress

vars == <<referenceSequence, autoSkip, disableAdvancement, startDisableAdvancement,
          videoRef, poseRef, cameraRef, detectors, lastPoseRef, framesAboveRef,
          stepRef, perStepBestRef, stepStartRef, isRunning, currentPose,
          currentScore, currentStep, perStepScores, windowPose, now, calc,
          profiles, signup, user_stats, pp_history, global_leaderboard, submits>>

\* the tables of the database and the calls that read and write them
remote == <<profiles, signup, user_stats, pp_history, global_leaderboard, submits>>

props == <<referenceSequence, autoSkip, disableAdvancement, startDisableAdvancement, videoRef>>
engine == <<poseRef, cameraRef, detectors>>
display == <<currentPose, currentScore, windowPose>>

\* ------------------------------------------------------ JavaScript arrays
ArrGet(arr, i) == IF i >= 0 /\ i < Len(arr) THEN arr[i + 1] ELSE Undefined

ArrSet(arr, i, v) ==
    IF i < Len(arr) THEN [arr EXCEPT ![i + 1] = v]
    ELSE [k \in 1..(i + 1) |->
            IF k <= Len(arr) THEN arr[k] ELSE IF k = i + 1 THEN v ELSE Undefined]

\* x || 0
OrZero(x) == IF x = Undefined THEN 0 ELSE x

Zeros(n) == [k \in 1..n |-> 0]

\* ------------------------------------------------- aggregate similarity
\* weightMap, in 1/100
WeightMap ==
    [idx \in {11, 12, 13, 14, 15, 16, 23, 24, 25, 26, 27, 28} |->
        CASE idx \in {25, 26} -> 12
          [] idx \in {27, 28} -> 8
          [] idx \in {23, 24} -> 10
          [] idx \in {11, 12} -> 12
          [] idx \in {13, 14} -> 11
          [] idx \in {15, 16} -> 9]

RECURSIVE SumOver(_, _)
SumOver(f, S) ==
    IF S = {} THEN 0
    ELSE LET x == CHOOSE y \in S : TRUE IN f[x] + SumOver(f, S \ {x})

\* weightMap and shoulderSpreadWeight of the hook's second variant, in 1/100
WeightMapSecond ==
    [idx \in {11, 12, 13, 14, 15, 16, 23, 24, 25, 26, 27, 28} |->
        CASE idx \in {25, 26} -> 10
          [] idx \in {27, 28} -> 6
          [] idx \in {23, 24} -> 6
          [] idx \in {11, 12} -> 14
          [] idx \in {13, 14} -> 12
          [] idx \in {15, 16} -> 12]
ShoulderSpreadWeightSecond == 15

\* wsum after the loop over weightMap and the shoulder-spread term
TotalWeight(weightMap, shoulderSpreadWeight) ==
    SumOver(weightMap, DOMAIN weightMap) + shoulderSpreadWeight

\* AggregateSimilarity taking the weights for fractions of 1
AggregateSimilarityUnnormalised(sims, shoulderSpreadSim) ==
    LET s == [idx \in DOMAIN WeightMap |->
                 (IF sims[idx] # Undefined THEN sims[idx] ELSE MissingSim) * WeightMap[idx]]
    IN (SumOver(s, DOMAIN WeightMap) + shoulderSpreadSim * ShoulderSpreadWeight) \div 100

\* sum / wsum over the weighted joints plus the shoulder-spread term;
\* a joint without a similarity counts MissingSim
AggregateSimilarity(sims, shoulderSpreadSim) ==
    LET s == [idx \in DOMAIN WeightMap |->
                 (IF sims[idx] # Undefined THEN sims[idx] ELSE MissingSim) * WeightMap[idx]]
        sum == SumOver(s, DOMAIN WeightMap) + shoulderSpreadSim * ShoulderSpreadWeight
        wsum == SumOver(WeightMap, DOMAIN WeightMap) + ShoulderSpreadWeight
    IN IF wsum # 0 THEN sum \div wsum ELSE 0

\* perJointAngleSimilarity of an empty live list: the eight angle joints get
\* the floor, which makes the array 27 long; its holes get the floor too
EmptyLiveSims == [idx \in 0..(FullLen - 1) |-> IF idx <= 26 THEN FloorSim ELSE Undefined]

\* similarity before the motion gate: computed for an empty live list (whose
\* shoulder-spread term is 0), an input for a full one
RawSim(landmarks, raw) ==
    IF landmarks.n = 0 THEN AggregateSimilarity(EmptyLiveSims, 0) ELSE raw

\* ------------------------------------------------------------ motion gate
\* mean landmark displacement between the previous and the current live pose
UserMotion(last, landmarks) ==
    IF last # Null /\ last.n = landmarks.n /\ landmarks.n > 0
    THEN Abs(last.pos - landmarks.pos)
    ELSE 0

\* mean landmark displacement between the previous step's target and the target
RefMotion(ref, step) ==
    LET prevIdx == Max(0, step - 1)
        targetIdx == Min(step, Len(ref) - 1)
    IN IF prevIdx < Len(ref) THEN Abs(ref[prevIdx + 1] - ref[targetIdx + 1]) ELSE 0

\* MotionGate that spares a frozen user whose pose matches
MotionGateSparesMatch(sim, userMotion, refMotion) ==
    IF userMotion < 2 /\ sim < 7000 THEN (sim * 5) \div 100 ELSE sim

MotionGate(sim, userMotion, refMotion) ==
    IF userMotion < 2
    THEN IF sim < 7000 THEN (sim * 5) \div 100 ELSE (sim * 50) \div 100
    ELSE IF userMotion < 5
    THEN IF sim < 6000 THEN (sim * 20) \div 100
         ELSE IF refMotion > 20 THEN (sim * 60) \div 100 ELSE sim
    ELSE IF refMotion > 30 /\ userMotion * 10 < refMotion * 3
    THEN (sim * 40) \div 100
    ELSE sim

\* Math.round(sim * 100)
Score(sim) == (sim + 50) \div 100

\* Math.round(autoSkip * 1000), for autoSkip in whole seconds
AutoSkipMs(skip) == skip * 1000

\* the clock is read once per second
TickMs == AutoSkipMs(1)

TypeOK ==
    /\ referenceSequence \in ReferenceSequences
    /\ autoSkip \in AutoSkipValues
    /\ disableAdvancement \in BOOLEAN
    /\ startDisableAdvancement \in BOOLEAN
    /\ videoRef \in BOOLEAN
    /\ poseRef \in 0..MaxDetectors
    /\ cameraRef = poseRef
    /\ Len(detectors) <= MaxDetectors
    /\ framesAboveRef \in 0..MaxFramesAbove
    /\ stepStartRef \in 0..MaxTime
    /\ now \in 0..MaxTime
    /\ isRunning \in BOOLEAN

\* ---------------------------------------------------------------- Init
\* the state after the first render and the mount effect on referenceSequence
\* ------------------------------------------------ database: initial contents
\* a table without a row for the key asked for (.single() yields data: null)
NoRow == [exists |-> FALSE]
\* the users submitting scores: one with a user_stats row, one without
Users == {"u1", "u2"}
\* the submit-score requests in flight at the same time
Requests == {1, 2}
\* the six-digit numbers generateDefaultUsername can draw
RandomNumbers == {100000, 100001, 999999}
\* createDefaultProfile has not been called
NoSignup ==
    [pc |-> "idle", maxRetries |-> 0, attempts |-> 0, inserts |-> 0,
     username |-> 0, failure |-> "none", data |-> 0, error |-> "null"]
\* no request has arrived
NoSubmit ==
    [pc |-> "idle", userId |-> "u1", effectivePP |-> 0, previousTotal |-> 0,
     existingStats |-> NoRow, status |-> 0]

\* user_stats before any request: u1 has played, u2 has no row yet
InitialStats ==
    [u \in Users |->
        IF u = "u1" THEN [exists |-> TRUE, total_pp |-> 900, total_plays |-> 3]
        ELSE NoRow]

RemoteInit ==
    /\ profiles = {100000}
    /\ signup = NoSignup
    /\ user_stats = InitialStats
    /\ pp_history = {}
    /\ global_leaderboard = [u \in Users |-> NoRow]
    /\ submits = [r \in Requests |-> NoSubmit]

Init ==
    /\ referenceSequence \in ReferenceSequences
    /\ autoSkip \in AutoSkipValues
    /\ disableAdvancement \in BOOLEAN
    /\ startDisableAdvancement = disableAdvancement
    /\ videoRef \in BOOLEAN
    /\ poseRef = 0
    /\ cameraRef = 0
    /\ detectors = <<>>
    /\ lastPoseRef = Null
    /\ framesAboveRef = 0
    /\ stepRef = 0
    /\ perStepBestRef = Zeros(Len(referenceSequence))
    /\ stepStartRef = 0
    /\ isRunning = FALSE
    /\ currentPose = Null
    /\ currentScore = 0
    /\ currentStep = 0
    /\ perStepScores = Zeros(Len(referenceSequence))
    /\ windowPose = Null
    /\ now = 0
    /\ calc = NoCalc
    /\ RemoteInit

\* ------------------------------------------------------------ operations
reset ==
    /\ framesAboveRef' = 0
    /\ stepRef' = 0
    /\ currentStep' = 0
    /\ currentScore' = 0
    /\ perStepBestRef' = <<>>
    /\ perStepScores' = <<>>
    /\ stepStartRef' = now
    /\ UNCHANGED <<calc, remote, props, engine, lastPoseRef, isRunning, currentPose, windowPose, now>>

\* the effect that runs when the referenceSequence prop is replaced
ReferenceEffect(seq) ==
    /\ referenceSequence' = seq
    /\ perStepBestRef' = Zeros(Len(seq))
    /\ perStepScores' = Zeros(Len(seq))
    /\ stepRef' = 0
    /\ stepStartRef' = now
    /\ currentStep' = 0

LoadReference ==
    \E seq \in ReferenceSequences \ {referenceSequence} :
        /\ ReferenceEffect(seq)
        /\ startDisableAdvancement' = disableAdvancement
        /\ UNCHANGED <<calc, remote, autoSkip, disableAdvancement, videoRef, engine, lastPoseRef,
                       framesAboveRef, isRunning, display, now>>

nextStep ==
    \/ /\ Len(referenceSequence) = 0
       /\ UNCHANGED vars
    \/ /\ Len(referenceSequence) # 0
       /\ stepRef' = Min(stepRef + 1, Len(referenceSequence) - 1)
       /\ framesAboveRef' = 0
       /\ currentStep' = stepRef'
       /\ stepStartRef' = now
       /\ UNCHANGED <<calc, remote, props, engine, lastPoseRef, perStepBestRef, perStepScores,
                      isRunning, display, now>>

prevStep ==
    \/ /\ Len(referenceSequence) = 0
       /\ UNCHANGED vars
    \/ /\ Len(referenceSequence) # 0
       /\ stepRef' = Max(0, stepRef - 1)
       /\ framesAboveRef' = 0
       /\ currentStep' = stepRef'
       /\ stepStartRef' = now
       /\ UNCHANGED <<calc, remote, props, engine, lastPoseRef, perStepBestRef, perStepScores,
                      isRunning, display, now>>

\* ClampStep without the lower bound
ClampStepUpperOnly(i, len) == Min(i, len - 1)

\* Math.max(0, Math.min(i, referenceSequence.length - 1))
ClampStep(i, len) == Max(0, Min(i, len - 1))

goToStep(i) ==
    \/ /\ Len(referenceSequence) = 0
       /\ UNCHANGED vars
    \/ /\ Len(referenceSequence) # 0
       /\ stepRef' = ClampStep(i, Len(referenceSequence))
       /\ framesAboveRef' = 0
       /\ currentStep' = stepRef'
       /\ stepStartRef' = now
       /\ UNCHANGED <<calc, remote, props, engine, lastPoseRef, perStepBestRef, perStepScores,
                      isRunning, display, now>>

\* --------------------------------------------------- detector life cycle
\* the sequence without its k-th element
RemoveAt(seq, k) == [j \in 1..(Len(seq) - 1) |-> IF j < k THEN seq[j] ELSE seq[j + 1]]

\* a ref that pointed into the sequence, after its k-th element is gone
Shift(ref, k) == IF ref > k THEN ref - 1 ELSE ref

\* start(): a new Pose whose onResults closure captures the props of the
\* render that memoized start, and a new Camera feeding it
start ==
    \/ /\ ~videoRef
       /\ UNCHANGED vars
    \/ /\ videoRef
       /\ Len(detectors) < MaxDetectors
       /\ isRunning' = TRUE
       /\ detectors' = Append(detectors,
              [referenceSequence |-> referenceSequence,
               autoSkip |-> autoSkip,
               disableAdvancement |-> startDisableAdvancement,
               closed |-> FALSE])
       /\ poseRef' = Len(detectors) + 1
       /\ cameraRef' = Len(detectors) + 1
       /\ UNCHANGED <<calc, remote, props, lastPoseRef, framesAboveRef, stepRef, perStepBestRef,
                      stepStartRef, display, currentStep, perStepScores, now>>

\* stop(): stops and closes the pair the refs point to, if any.  The camera
\* sends frames to the detector on its own schedule, so a result may be in
\* flight at that moment (inflight); a closed pair stays only while it is
stop ==
    \E inflight \in BOOLEAN :
        /\ isRunning' = FALSE
        /\ IF cameraRef # 0
           THEN detectors' =
                    IF inflight
                    THEN [detectors EXCEPT ![cameraRef].closed = TRUE]
                    ELSE RemoveAt(detectors, cameraRef)
           ELSE detectors' = detectors
        /\ cameraRef' = 0
        /\ poseRef' = 0
        /\ windowPose' = Null
        /\ UNCHANGED <<calc, remote, props, lastPoseRef, framesAboveRef, stepRef, perStepBestRef,
                       stepStartRef, currentPose, currentScore, currentStep,
                       perStepScores, now>>

\* the detector's bookkeeping once its result has been delivered or discarded:
\* a running pair goes on with the next frame, a closed one is gone
Delivered(k) ==
    IF detectors[k].closed
    THEN /\ detectors' = RemoveAt(detectors, k)
         /\ poseRef' = Shift(poseRef, k)
         /\ cameraRef' = Shift(cameraRef, k)
    ELSE UNCHANGED <<detectors, poseRef, cameraRef>>

\* a closed detector may discard the result it was computing
DropResult(k) ==
    /\ detectors[k].closed
    /\ Delivered(k)
    /\ UNCHANGED <<calc, remote, props, lastPoseRef, framesAboveRef, stepRef, perStepBestRef,
                   stepStartRef, isRunning, display, currentStep, perStepScores, now>>

\* ------------------------------------------------------ pose.onResults
\* UpdateBest that overwrites instead of keeping the maximum
UpdateBestOverwrite(best, idx, sim) == ArrSet(best, idx, sim)

\* UpdateBest that also writes the entry of the following step
UpdateBestAndNext(best, idx, sim) ==
    ArrSet(ArrSet(best, idx, Max(OrZero(ArrGet(best, idx)), sim)), idx + 1, sim)

\* perStepBestRef.current[idx] = Math.max(perStepBestRef.current[idx] || 0, sim)
UpdateBest(best, idx, sim) == ArrSet(best, idx, Max(OrZero(ArrGet(best, idx)), sim))

\* if (sim >= threshold) framesAboveRef.current += 1; else framesAboveRef.current = 0
CountFrame(sim, framesAbove) == IF sim >= Threshold THEN framesAbove + 1 ELSE 0

\* HoldReached one frame late
HoldReachedLate(d, framesAbove) ==
    ~d.disableAdvancement /\ d.autoSkip <= 0 /\ framesAbove > Hold

\* HoldReached without the disableAdvancement guard
HoldReachedUnguarded(d, framesAbove) ==
    d.autoSkip <= 0 /\ framesAbove >= Hold

\* the guard of the threshold-hold advance
HoldReached(d, framesAbove) ==
    ~d.disableAdvancement /\ d.autoSkip <= 0 /\ framesAbove >= Hold

\* AutoSkipDue with a strict comparison
AutoSkipDueStrict(d, stepStart) ==
    /\ ~d.disableAdvancement
    /\ d.autoSkip > 0
    /\ (now - stepStart) * TickMs > AutoSkipMs(d.autoSkip)

\* the guard of the auto-skip advance
AutoSkipDue(d, stepStart) ==
    /\ ~d.disableAdvancement
    /\ d.autoSkip > 0
    /\ (now - stepStart) * TickMs >= AutoSkipMs(d.autoSkip)

\* AdvanceStep without the cap
AdvanceStepUncapped(ref, step) == step + 1

\* AdvanceStep moving two steps at once
AdvanceStepTwice(ref, step) ==
    IF Len(ref) > 0 THEN Min(step + 2, Max(0, Len(ref) - 1)) ELSE 0

\* the step after an advance, capped at the last index
AdvanceStep(ref, step) ==
    IF Len(ref) > 0 THEN Min(step + 1, Max(0, Len(ref) - 1)) ELSE 0

\* the indices normalizeLandmarks reads: both hips, both shoulders
NormalizeReads == {23, 24, 11, 12}

\* normalizeLandmarks reads arr[i][0] for every i of NormalizeReads unless the
\* list is empty: an index past the end raises a TypeError in the scorer and
\* again in the poseSimilarity fallback, which ends the callback
Throws(landmarks) ==
    landmarks.n # 0 /\ \E i \in NormalizeReads : i >= landmarks.n

\* EmptyReference that lets every frame through to the scorer
EmptyReferenceNever(ref) == FALSE

\* !referenceSequence || referenceSequence.length === 0
EmptyReference(ref) == Len(ref) = 0

\* the similarity of one frame: the weighted aggregate, then the motion penalty
GatedSim(landmarks, raw, ref) ==
    MotionGate(RawSim(landmarks, raw),
               UserMotion(lastPoseRef, landmarks),
               RefMotion(ref, stepRef))

OnResults(k, landmarks, raw) ==
    LET d == detectors[k]
        ref == d.referenceSequence
        sim == GatedSim(landmarks, raw, ref)
        best1 == UpdateBest(perStepBestRef, stepRef, sim)
        frames1 == CountFrame(sim, framesAboveRef)
        hold == HoldReached(d, frames1)
        frames2 == IF hold THEN 0 ELSE frames1
        step2 == IF hold THEN AdvanceStep(ref, stepRef) ELSE stepRef
        stepStart2 == IF hold THEN now ELSE stepStartRef
        skip == AutoSkipDue(d, stepStart2)
        best3 == IF skip THEN UpdateBest(best1, step2, sim) ELSE best1
        step3 == IF skip THEN AdvanceStep(ref, step2) ELSE step2
        stepStart3 == IF skip THEN now ELSE stepStart2
    IN
    /\ Delivered(k)
    /\ windowPose' = landmarks
    /\ currentPose' = landmarks
    /\ UNCHANGED <<calc, remote, props, isRunning, now>>
    /\ IF EmptyReference(ref)
       THEN /\ currentScore' = 0
            /\ UNCHANGED <<lastPoseRef, framesAboveRef, stepRef, perStepBestRef,
                           stepStartRef, currentStep, perStepScores>>
       ELSE IF Throws(landmarks)
       THEN UNCHANGED <<currentScore, lastPoseRef, framesAboveRef, stepRef,
                        perStepBestRef, stepStartRef, currentStep, perStepScores>>
       ELSE /\ frames1 <= MaxFramesAbove
            /\ perStepBestRef' = best3
            /\ perStepScores' = best3
            /\ currentScore' = Score(sim)
            /\ framesAboveRef' = frames2
            /\ stepRef' = step3
            /\ currentStep' = IF hold \/ skip THEN step3 ELSE currentStep
            /\ stepStartRef' = stepStart3
            /\ lastPoseRef' = landmarks

\* --------------------------------------------------------- environment
Tick ==
    /\ now < MaxTime
    /\ now' = now + 1
    /\ UNCHANGED <<calc, remote, props, engine, lastPoseRef, framesAboveRef, stepRef, perStepBestRef,
                   stepStartRef, isRunning, display, currentStep, perStepScores>>

\* the parent re-renders the hook with another autoSkip; start is memoized anew
SetAutoSkip ==
    \E a \in AutoSkipValues \ {autoSkip} :
        /\ autoSkip' = a
        /\ startDisableAdvancement' = disableAdvancement
        /\ UNCHANGED <<calc, remote, referenceSequence, disableAdvancement, videoRef, engine,
                       lastPoseRef, framesAboveRef, stepRef, perStepBestRef,
                       stepStartRef, isRunning, display, currentStep, perStepScores, now>>

\* the parent re-renders the hook with another disableAdvancement, which is
\* not among the dependencies of start
SetDisableAdvancement ==
    /\ disableAdvancement' = ~disableAdvancement
    /\ UNCHANGED <<calc, remote, referenceSequence, autoSkip, startDisableAdvancement, videoRef,
                   engine, lastPoseRef, framesAboveRef, stepRef, perStepBestRef,
                   stepStartRef, isRunning, display, currentStep, perStepScores, now>>

StepArgs == (-1)..MaxSteps

Frame == \E k \in 1..Len(detectors), landmarks \in Landmarks, raw \in RawLevels :
            OnResults(k, landmarks, raw)
Discard == \E k \in 1..Len(detectors) : DropResult(k)
GoTo == \E i \in StepArgs : goToStep(i)

\* one session of the hook, its props as given at the first render
Next ==
    \/ reset
    \/ nextStep
    \/ prevStep
    \/ GoTo
    \/ start
    \/ stop
    \/ Frame
    \/ Discard
    \/ Tick

Spec == Init /\ [][Next]_vars

\* a session whose reference is one step longer than those of Spec, driven
\* by frames and the clock alone: a frame that advanced twice would move the
\* step from 0 to 2
LongReference == Reference(MaxSteps + 1)

InitLong ==
    /\ referenceSequence = LongReference
    /\ autoSkip \in AutoSkipValues
    /\ disableAdvancement \in BOOLEAN
    /\ startDisableAdvancement = disableAdvancement
    /\ videoRef \in BOOLEAN
    /\ poseRef = 0
    /\ cameraRef = 0
    /\ detectors = <<>>
    /\ lastPoseRef = Null
    /\ framesAboveRef = 0
    /\ stepRef = 0
    /\ perStepBestRef = Zeros(Len(referenceSequence))
    /\ stepStartRef = 0
    /\ isRunning = FALSE
    /\ currentPose = Null
    /\ currentScore = 0
    /\ currentStep = 0
    /\ perStepScores = Zeros(Len(referenceSequence))
    /\ windowPose = Null
    /\ now = 0
    /\ calc = NoCalc
    /\ RemoteInit

NextLong ==
    \/ start
    \/ Frame
    \/ Tick

SpecLong == InitLong /\ [][NextLong]_vars

\* a session that is started and fed frames under a parent that also
\* replaces the props start depends on
NextProps ==
    \/ start
    \/ Frame
    \/ Tick
    \/ LoadReference
    \/ SetAutoSkip

SpecProps == Init /\ [][NextProps]_vars

\* ------------------------------------------------- scoring functions
\* the state of the session, which a call of a scoring function leaves alone
session == <<referenceSequence, autoSkip, disableAdvancement, startDisableAdvancement,
             videoRef, poseRef, cameraRef, detectors, lastPoseRef, framesAboveRef,
             stepRef, perStepBestRef, stepStartRef, isRunning, currentPose,
             currentScore, currentStep, perStepScores, windowPose, now>>

\* aggregate similarities on both sides of the cutoffs of the motion penalty
GateSims == {0, 5900, 6000, 6900, 7000, 10000}

\* the motion penalty on one frame: sim is the weighted aggregate, last the
\* previous live pose (or Null), step the current step of ref
ApplyGate ==
    \E sim \in GateSims, last \in Landmarks \cup {Null}, landmarks \in Landmarks,
       ref \in ReferenceSequences, step \in 0..(MaxSteps - 1) :
        /\ calc = NoCalc
        /\ ~Throws(landmarks)
        /\ last # Null => ~Throws(last)
        /\ step < Len(ref)
        /\ calc' = [op |-> "gate", sim |-> sim, last |-> last, landmarks |-> landmarks,
                    ref |-> ref, step |-> step,
                    out |-> MotionGate(sim, UserMotion(last, landmarks), RefMotion(ref, step))]
        /\ UNCHANGED <<session, remote>>

\* ---- calculateComprehensiveScore: scores and component scores in 1/10000
RECURSIVE SumSeq(_)
SumSeq(seq) == IF Len(seq) = 0 THEN 0 ELSE Head(seq) + SumSeq(Tail(seq))

\* number of entries above a level; null > level is false
CountAbove(seq, level) == Cardinality({k \in 1..Len(seq) : seq[k] > level})

\* Math.sqrt on integers: the largest r with r * r <= n
RECURSIVE SqrtBetween(_, _, _)
SqrtBetween(n, lo, hi) ==
    IF lo >= hi THEN lo
    ELSE LET mid == (lo + hi + 1) \div 2
         IN IF mid * mid <= n THEN SqrtBetween(n, mid, hi) ELSE SqrtBetween(n, lo, mid - 1)

Sqrt(n) == SqrtBetween(n, 0, 10000)

\* stepScores.filter(score => score !== null && score !== undefined)
ValidScores(stepScores) == SelectSeq(stepScores, LAMBDA x : x # Undefined)

\* SCORING_WEIGHTS, in tenths
ScoringWeights == [ACCURACY |-> 6, CONSISTENCY |-> 2, TIMING |-> 1, STYLE |-> 1]

\* DIFFICULTY_MULTIPLIERS, in tenths
DifficultyMultipliers ==
    [BEGINNER |-> 10, INTERMEDIATE |-> 13, ADVANCED |-> 16, EXPERT |-> 20]

\* movement between two poses of a reference: each of the ten key joints
\* moves by the displacement of the translated pose (1/1000)
PoseMovement(prev, curr) == 10 * Abs(curr - prev)

assessChallengeDifficulty(ref) ==
    IF Len(ref) = 0 THEN "BEGINNER"
    ELSE LET moves == [i \in 1..(Len(ref) - 1) |-> PoseMovement(ref[i], ref[i + 1])]
             totalMovement == SumSeq(moves)
             rapidChanges == CountAbove(moves, 300)
             den == Max(1, Len(ref) - 1)
         IN \* avgMovement > m is totalMovement > m * den, the ratio likewise
            IF totalMovement > 250 * den \/ rapidChanges * 100 > 40 * den THEN "EXPERT"
            ELSE IF totalMovement > 150 * den \/ rapidChanges * 100 > 25 * den THEN "ADVANCED"
            ELSE IF totalMovement > 80 * den \/ rapidChanges * 100 > 15 * den THEN "INTERMEDIATE"
            ELSE "BEGINNER"

calculateConsistency(stepScores) ==
    LET valid == ValidScores(stepScores)
    IN IF Len(stepScores) = 0 \/ Len(valid) = 0 THEN 0
       ELSE LET mean == SumSeq(valid) \div Len(valid)
                squares == [k \in 1..Len(valid) |-> (valid[k] - mean) * (valid[k] - mean)]
                variance == SumSeq(squares) \div Len(valid)
                standardDeviation == Sqrt(variance)
            IN Max(0, 10000 - standardDeviation * 2)

calculateTimingAccuracy(timingData) ==
    IF Len(timingData) = 0 THEN 5000
    ELSE LET orHalf == [k \in 1..Len(timingData) |->
                           IF timingData[k] = 0 \/ timingData[k] = Undefined
                           THEN 5000 ELSE timingData[k]]
             avgTiming == SumSeq(orHalf) \div Len(timingData)
         IN Max(0, Min(10000, avgTiming))

calculateStyleBonus(stepScores, averageScore) ==
    IF Len(stepScores) = 0 THEN 0
    ELSE LET highScoreRatio == (CountAbove(stepScores, 8000) * 10000) \div Len(stepScores)
             peakScores == CountAbove(stepScores, 9000)
             peakBonus == Min(3000, (peakScores * 2 * 10000) \div Len(stepScores))
             styleScore == (highScoreRatio * 7) \div 10 + peakBonus
         IN Max(0, Min(10000, styleScore))

\* Math.round(x * 100) of a score x in 1/10000
Percent(x) == (x + 50) \div 100

\* AdjustedScore without the cap at 1.0
AdjustedScoreUncapped(finalScore, difficultyMultiplier) == finalScore * difficultyMultiplier

\* Math.min(1.0, finalScore * difficultyMultiplier), in 1/1000000: finalScore
\* comes in 1/100000, the multiplier in tenths
AdjustedScore(finalScore, difficultyMultiplier) ==
    Min(1000000, finalScore * difficultyMultiplier)

calculateComprehensiveScore(performanceData) ==
    LET stepScores == performanceData.stepScores
        validStepScores == ValidScores(stepScores)
        baseAccuracy == IF Len(validStepScores) > 0
                        THEN SumSeq(validStepScores) \div Len(validStepScores)
                        ELSE 0
        accuracy == baseAccuracy
        consistency == calculateConsistency(stepScores)
        timing == calculateTimingAccuracy(performanceData.timingData)
        style == calculateStyleBonus(stepScores, accuracy)
        finalScore == accuracy * ScoringWeights.ACCURACY
                        + consistency * ScoringWeights.CONSISTENCY
                        + timing * ScoringWeights.TIMING
                        + style * ScoringWeights.STYLE
        difficulty == assessChallengeDifficulty(performanceData.referenceSequence)
        adjustedScore == AdjustedScore(finalScore, DifficultyMultipliers[difficulty])
    IN [finalScore |-> (adjustedScore + 5000) \div 10000,
        breakdown |-> [accuracy |-> Percent(accuracy),
                       consistency |-> Percent(consistency),
                       timing |-> Percent(timing),
                       style |-> Percent(style)],
        difficulty |-> difficulty]

\* ---- calculatePerformancePoints: scores in percent, points in 1/100
\* PP_BASE_VALUES
PpBaseValues ==
    [MIN_PP |-> 5, MAX_PP |-> 100, DIFFICULTY_BONUS |-> 50,
     IMPROVEMENT_BONUS |-> 25, STREAK_BONUS |-> 10]

\* Math.round of a value in 1/100
Round(x) == (x + 50) \div 100

\* (finalScore / 100) * MAX_PP, floored at MIN_PP
BasePP(finalScore) ==
    Max(PpBaseValues.MIN_PP * 100, finalScore * PpBaseValues.MAX_PP)

\* the factors 0.7 and 0.4 are taken in 1/100
DifficultyBonus(difficulty) ==
    CASE difficulty = "EXPERT" -> PpBaseValues.DIFFICULTY_BONUS * 100
      [] difficulty = "ADVANCED" -> PpBaseValues.DIFFICULTY_BONUS * 70
      [] difficulty = "INTERMEDIATE" -> PpBaseValues.DIFFICULTY_BONUS * 40
      [] OTHER -> 0

ImprovementBonus(finalScore, personalBest) ==
    IF finalScore > personalBest
    THEN PpBaseValues.IMPROVEMENT_BONUS * (finalScore - personalBest)
    ELSE 0

\* StreakBonus without the cap of three steps
StreakBonusUncapped(currentStreak) ==
    IF currentStreak >= 3
    THEN PpBaseValues.STREAK_BONUS * (currentStreak \div 3) * 100
    ELSE 0

StreakBonus(currentStreak) ==
    IF currentStreak >= 3
    THEN PpBaseValues.STREAK_BONUS * Min(3, currentStreak \div 3) * 100
    ELSE 0

ExcellenceBonus(finalScore) ==
    IF finalScore >= 95 THEN 1500
    ELSE IF finalScore >= 90 THEN 1000
    ELSE IF finalScore >= 85 THEN 500
    ELSE 0

calculatePerformancePoints(scoreData, playerHistory) ==
    LET finalScore == scoreData.finalScore
        basePP == BasePP(finalScore)
        difficultyBonus == DifficultyBonus(scoreData.difficulty)
        improvementBonus == ImprovementBonus(finalScore, playerHistory.personalBest)
        streakBonus == StreakBonus(playerHistory.currentStreak)
        excellenceBonus == ExcellenceBonus(finalScore)
    IN [totalPP |-> Round(basePP + difficultyBonus + improvementBonus
                            + streakBonus + excellenceBonus),
        breakdown |-> [basePP |-> Round(basePP),
                       difficultyBonus |-> Round(difficultyBonus),
                       improvementBonus |-> Round(improvementBonus),
                       streakBonus |-> Round(streakBonus),
                       excellenceBonus |-> excellenceBonus \div 100]]

\* ---- the inputs of the scoring functions
MaxStreak == 12      \* longest streak explored

\* per-step scores: a missing entry, and values around the style cutoffs
ScoreLevels == {Undefined, 0, 5000, 8500, 10000}
TimingLevels == {0, 5000, 10000}
\* displacement between consecutive poses of a reference (1/1000)
Displacements == {0, 10, 20, 100}
FinalScores == {0, 4, 5, 6, 50, 84, 85, 89, 90, 94, 95, 100}
PersonalBests == {0, 50, 90, 100}
Difficulties == {"BEGINNER", "INTERMEDIATE", "ADVANCED", "EXPERT"}

RECURSIVE SeqsUpTo(_, _)
SeqsUpTo(S, n) ==
    IF n = 0 THEN {<<>>}
    ELSE LET shorter == SeqsUpTo(S, n - 1)
         IN shorter \cup {Append(q, x) : q \in shorter, x \in S}

\* a reference of n poses, each translated by d from the one before
Moving(n, d) == [k \in 1..n |-> (k - 1) * d]
ScoredReferences == {Moving(n, d) : n \in 0..MaxSteps, d \in Displacements}
TimingSeqs == {[k \in 1..n |-> t] : n \in 0..MaxSteps, t \in TimingLevels}

Aggregate ==
    \E stepScores \in SeqsUpTo(ScoreLevels, MaxSteps), timingData \in TimingSeqs,
       ref \in ScoredReferences :
        LET performanceData == [stepScores |-> stepScores, timingData |-> timingData,
                                referenceSequence |-> ref]
        IN /\ calc = NoCalc
           /\ calc' = [op |-> "score", args |-> performanceData,
                       out |-> calculateComprehensiveScore(performanceData)]
           /\ UNCHANGED <<session, remote>>

Points ==
    \E finalScore \in FinalScores, difficulty \in Difficulties,
       personalBest \in PersonalBests, currentStreak \in 0..MaxStreak :
        LET scoreData == [finalScore |-> finalScore, difficulty |-> difficulty]
            playerHistory == [personalBest |-> personalBest, currentStreak |-> currentStreak]
        IN /\ calc = NoCalc
           /\ calc' = [op |-> "points", args |-> scoreData, history |-> playerHistory,
                       out |-> calculatePerformancePoints(scoreData, playerHistory)]
           /\ UNCHANGED <<session, remote>>

\* ---- perJointAngleSimilarity and the weighted aggregate of two full poses
\* A full pose is given by what the scorer reads of it: the angle of its arm
\* joints (shoulders 11/12, elbows 13/14) and of its leg joints (hips 23/24,
\* knees 25/26) in degrees, Undefined where angleBetweenPoints returns null
\* because two of the three landmarks coincide in the image plane; the
\* normalized offset of its other joints (1/1000); its normalized shoulder
\* distance (1/1000); the visibility of its landmarks (1/100).
AngleJoints == {25, 26, 23, 24, 13, 14, 11, 12}
ArmJoints == {11, 12, 13, 14}

ArmAngles == {Undefined, 90, 120}
LegAngles == {Undefined, 170}
Reaches == {0, 400}
Spreads == {500, 700}
Visibilities == {10, 100}

ComparedPoses ==
    [arm : ArmAngles, leg : LegAngles, reach : Reaches, spread : Spreads,
     vis : Visibilities]

\* poseToAngles(landmarks)[joint]
AngleAt(pose, idx) == IF idx \in ArmJoints THEN pose.arm ELSE pose.leg

\* angleSimilarity(a, b, tolerance), tolerance in degrees
angleSimilarity(a, b, tolerance) ==
    IF a = Undefined \/ b = Undefined THEN 0
    ELSE Max(0, 10000 - (Abs(a - b) * 10000) \div tolerance)

\* Math.max(0.5, visAvg / Math.max(1e-6, visThreshold)), visThreshold = 0.2
VisFactor(vA, vB) ==
    LET visAvg == (vA + vB) \div 2
    IN IF visAvg < 20 THEN Max(5000, (visAvg * 10000) \div 20) ELSE 10000

\* the similarity of a mapped joint, angleTolerance = 30
AngleJointSim(A, B, idx) ==
    LET simRaw == angleSimilarity(AngleAt(A, idx), AngleAt(B, idx), 30)
        scaled == (simRaw * VisFactor(A.vis, B.vis)) \div 10000
    IN Max(FloorSim, Min(10000, scaled))

\* the similarity of another joint from the normalized distance, distTolerance = 0.8
DistanceJointSim(A, B) ==
    LET dist == Abs(A.reach - B.reach)
        fallback == Max(0, Min(10000, 10000 - (dist * 10000) \div 800))
    IN IF A.vis < 20 \/ B.vis < 20
       THEN Max(FloorSim, (fallback * Max(5000, (((A.vis + B.vis) \div 2) * 10000) \div 20)) \div 10000)
       ELSE fallback

perJointAngleSimilarity(A, B) ==
    [idx \in 0..(FullLen - 1) |->
        IF idx \in AngleJoints THEN AngleJointSim(A, B, idx) ELSE DistanceJointSim(A, B)]

\* shoulderSpreadSimilarity(landmarks, target, 1.0)
shoulderSpreadSimilarity(A, B) ==
    LET diff == Abs(A.spread - B.spread)
    IN Max(0, Min(10000, 10000 - (diff * 10000) \div 1000))

Compare ==
    \E live \in ComparedPoses, target \in ComparedPoses :
        /\ calc = NoCalc
        /\ calc' = [op |-> "compare", live |-> live, target |-> target,
                    sims |-> perJointAngleSimilarity(live, target),
                    spread |-> shoulderSpreadSimilarity(live, target),
                    out |-> AggregateSimilarity(perJointAngleSimilarity(live, target),
                                                shoulderSpreadSimilarity(live, target))]
        /\ UNCHANGED <<session, remote>>

\* ---- the final accuracy as the page and the fallback compute it
\* stopRecording: currentScores.reduce((a, b) => a + (b || 0), 0) /
\* currentScores.length; a hole or null adds nothing but counts in the length
PageAverage(currentScores) ==
    IF Len(currentScores) > 0
    THEN SumSeq([k \in 1..Len(currentScores) |-> OrZero(currentScores[k])])
             \div Len(currentScores)
    ELSE 0

\* calculateBasicScore, in percent
calculateBasicScore(stepScores) ==
    IF Len(stepScores) = 0 THEN 0
    ELSE LET validScores == ValidScores(stepScores)
         IN IF Len(validScores) = 0 THEN 0
            ELSE Percent(SumSeq(validScores) \div Len(validScores))

\* the same per-step scores taken to the server, to stopRecording and to the
\* fallback
FinalAccuracy ==
    \E stepScores \in SeqsUpTo(ScoreLevels, MaxSteps) :
        /\ calc = NoCalc
        /\ calc' = [op |-> "accuracy", stepScores |-> stepScores,
                    server |-> calculateComprehensiveScore(
                                   [stepScores |-> stepScores, timingData |-> <<>>,
                                    referenceSequence |-> <<>>]).breakdown.accuracy,
                    page |-> Percent(PageAverage(stepScores)),
                    basic |-> calculateBasicScore(stepScores)]
        /\ UNCHANGED <<session, remote>>

\* ---- calculateLeaderboardPosition: scores in percent
\* most existing scores of a challenge explored
MaxPlayers == 3
PositionScores == {10, 50, 90}
ExistingScores == {20, 50, 80}

\* [...allScores].sort((a, b) => b - a)
RECURSIVE SortDescending(_)
SortDescending(seq) ==
    IF Len(seq) = 0 THEN <<>>
    ELSE LET k == CHOOSE i \in 1..Len(seq) : \A j \in 1..Len(seq) : seq[i] >= seq[j]
         IN <<seq[k]>> \o SortDescending(SubSeq(seq, 1, k - 1) \o SubSeq(seq, k + 1, Len(seq)))

\* sortedScores.findIndex(s => s <= score): 0-based, -1 when there is none
FindIndexAtMost(sortedScores, score) ==
    IF \E i \in 1..Len(sortedScores) : sortedScores[i] <= score
    THEN (CHOOSE i \in 1..Len(sortedScores) :
              /\ sortedScores[i] <= score
              /\ \A j \in 1..(i - 1) : sortedScores[j] > score) - 1
    ELSE -1

calculateLeaderboardPosition(score, allScores) ==
    IF Len(allScores) = 0
    THEN [position |-> 1, percentile |-> 100, totalPlayers |-> 1]
    ELSE LET sortedScores == SortDescending(allScores)
             position == FindIndexAtMost(sortedScores, score) + 1
             n == Len(allScores)
             \* Math.round(((n - position + 1) / n) * 100)
             percentile == (2 * 100 * (n - position + 1) + n) \div (2 * n)
         IN [position |-> position, percentile |-> percentile, totalPlayers |-> n + 1]

Position ==
    \E score \in PositionScores, allScores \in SeqsUpTo(ExistingScores, MaxPlayers) :
        /\ calc = NoCalc
        /\ calc' = [op |-> "position", score |-> score, allScores |-> allScores,
                    out |-> calculateLeaderboardPosition(score, allScores)]
        /\ UNCHANGED <<session, remote>>

\* ---- rank tiers
\* total PP on both sides of every tier boundary
TotalPPs == {0, 249, 250, 999, 1000, 2499, 2500, 4999, 5000, 7499, 7500, 9999, 10000}

\* getPlayerRank(totalPP).tier
getPlayerRank(totalPP) ==
    IF totalPP >= 10000 THEN "LEGEND"
    ELSE IF totalPP >= 7500 THEN "MASTER"
    ELSE IF totalPP >= 5000 THEN "EXPERT"
    ELSE IF totalPP >= 2500 THEN "ADVANCED"
    ELSE IF totalPP >= 1000 THEN "INTERMEDIATE"
    ELSE IF totalPP >= 250 THEN "BEGINNER"
    ELSE "NOVICE"

\* the case expression of update_global_leaderboard
SqlRankTier(total_pp) ==
    IF total_pp >= 10000 THEN "LEGEND"
    ELSE IF total_pp >= 7500 THEN "MASTER"
    ELSE IF total_pp >= 5000 THEN "EXPERT"
    ELSE IF total_pp >= 2500 THEN "ADVANCED"
    ELSE IF total_pp >= 1000 THEN "BEGINNER"
    ELSE IF total_pp >= 250 THEN "INTERMEDIATE"
    ELSE "NOVICE"

\* the tier of one total as the server and as the database compute it
Rank ==
    \E totalPP \in TotalPPs :
        /\ calc = NoCalc
        /\ calc' = [op |-> "rank", totalPP |-> totalPP,
                    server |-> getPlayerRank(totalPP),
                    database |-> SqlRankTier(totalPP)]
        /\ UNCHANGED <<session, remote>>

\* the caller has taken the result
Return ==
    /\ calc # NoCalc
    /\ calc' = NoCalc
    /\ UNCHANGED <<session, remote>>

\* the scoring functions called on their own, one call at a time, by a page
\* whose session is idle
InitScoring ==
    /\ Init
    /\ videoRef
    /\ referenceSequence = Reference(MaxSteps)
    /\ autoSkip = 0
    /\ ~disableAdvancement

NextScoring ==
    \/ ApplyGate
    \/ Aggregate
    \/ Points
    \/ Compare
    \/ FinalAccuracy
    \/ Position
    \/ Rank
    \/ Return

SpecScoring == InitScoring /\ [][NextScoring]_vars

\* ------------------------------------------------- createDefaultProfile
\* maxRetries when the caller passes none
DefaultMaxRetries == 5
RetryLimits == {0, 1, 2, DefaultMaxRetries}

\* what the insert into profiles answers: an error object with code 23505
\* whose details name the username, any other error object, or a rejected
\* promise; the unique constraint decides between success and duplicate
InsertOutcomes(username) ==
    IF username \in profiles
    THEN {"duplicate_username", "error", "rejected"}
    ELSE {"ok", "error", "rejected"}

AfterDuplicateStuck(attempts) == attempts
\* attempts++ before continue
AfterDuplicate(attempts) == attempts + 1

\* the catch block gives up on the last attempt
CatchReturns(attempts, maxRetries) == attempts >= maxRetries - 1

\* from the head of the while loop to the next await or return
Loop(s) ==
    IF s.attempts < s.maxRetries
    THEN {[s EXCEPT !.pc = "insert", !.username = n, !.inserts = @ + 1] :
             n \in RandomNumbers}
    ELSE {[s EXCEPT !.pc = "returned", !.data = 0, !.error = "retries_exhausted"]}

\* the call, up to its first insert
createDefaultProfile(maxRetries) ==
    /\ signup.pc = "idle"
    /\ signup' \in Loop([NoSignup EXCEPT !.maxRetries = maxRetries])
    /\ UNCHANGED <<session, calc, profiles, user_stats, pp_history,
                   global_leaderboard, submits>>

\* the awaited insert settles and the function runs on to its next insert
\* or to its return
InsertSettles(outcome) ==
    /\ signup.pc = "insert"
    /\ outcome \in InsertOutcomes(signup.username)
    /\ LET s == [signup EXCEPT !.failure = outcome] IN
       CASE outcome = "ok" ->
              /\ signup' = [s EXCEPT !.pc = "returned", !.data = s.username,
                                     !.error = "null"]
              /\ profiles' = profiles \cup {s.username}
         [] outcome = "duplicate_username" ->
              /\ signup' \in Loop([s EXCEPT !.attempts = AfterDuplicate(@)])
              /\ UNCHANGED profiles
         [] OTHER ->
              /\ IF CatchReturns(s.attempts, s.maxRetries)
                 THEN signup' = [s EXCEPT !.pc = "returned", !.data = 0,
                                          !.error = outcome]
                 ELSE signup' \in Loop([s EXCEPT !.attempts = @ + 1])
              /\ UNCHANGED profiles
    /\ UNCHANGED <<session, calc, user_stats, pp_history, global_leaderboard, submits>>

\* useUser consumes the result; a later login calls again
ProfileLoaded ==
    /\ signup.pc = "returned"
    /\ signup' = NoSignup
    /\ UNCHANGED <<session, calc, profiles, user_stats, pp_history,
                   global_leaderboard, submits>>

NextProfile ==
    \/ \E maxRetries \in RetryLimits : createDefaultProfile(maxRetries)
    \/ \E outcome \in {"ok", "duplicate_username", "error", "rejected"} :
          InsertSettles(outcome)
    \/ ProfileLoaded

SpecProfile == InitScoring /\ [][NextProfile]_vars

\* ------------------------------------------------ POST /api/submit-score
\* ppData.totalPP as sent by the client or as calculated by the server
PPValues == {0, 40}

\* existingStats?.total_pp || 0 and existingStats?.total_plays || 0
TotalPPOf(row) == IF row.exists THEN row.total_pp ELSE 0
TotalPlaysOf(row) == IF row.exists THEN row.total_plays ELSE 0

\* the UPDATE of user_stats: the totals are computed from the row read earlier
UpdateStats(read, effectivePP) ==
    [exists |-> TRUE, total_pp |-> TotalPPOf(read) + effectivePP,
     total_plays |-> TotalPlaysOf(read) + 1]

\* the request arrives with all required fields; effectivePP is the client's
\* ppData.totalPP or, without one, the server's own calculation
SubmitScore(r, userId, totalPP) ==
    /\ submits[r].pc = "idle"
    /\ submits' = [submits EXCEPT ![r] =
                      [NoSubmit EXCEPT !.pc = "insertScore", !.userId = userId,
                                       !.effectivePP = totalPP]]
    /\ UNCHANGED <<session, calc, profiles, signup, user_stats, pp_history,
                   global_leaderboard>>

\* insert into scores; an error is thrown to the handler's catch (status 500)
InsertScore(r, ok) ==
    /\ submits[r].pc = "insertScore"
    /\ submits' = [submits EXCEPT ![r] =
                      IF ~ok THEN [@ EXCEPT !.pc = "done", !.status = 500]
                      ELSE IF @.effectivePP > 0 THEN [@ EXCEPT !.pc = "readTotal"]
                      ELSE [@ EXCEPT !.pc = "readStats"]]
    /\ UNCHANGED <<session, calc, profiles, signup, user_stats, pp_history,
                   global_leaderboard>>

\* select total_pp for the pp_history row
ReadTotal(r) ==
    /\ submits[r].pc = "readTotal"
    /\ submits' = [submits EXCEPT ![r] =
                      [@ EXCEPT !.pc = "insertHistory",
                                !.previousTotal = TotalPPOf(user_stats[submits[r].userId])]]
    /\ UNCHANGED <<session, calc, profiles, signup, user_stats, pp_history,
                   global_leaderboard>>

InsertHistory(r) ==
    /\ submits[r].pc = "insertHistory"
    /\ pp_history' = pp_history \cup
           {[user_id |-> submits[r].userId, score_id |-> r,
             pp_earned |-> submits[r].effectivePP,
             previous_total_pp |-> submits[r].previousTotal,
             new_total_pp |-> submits[r].previousTotal + submits[r].effectivePP]}
    /\ submits' = [submits EXCEPT ![r].pc = "readStats"]
    /\ UNCHANGED <<session, calc, profiles, signup, user_stats, global_leaderboard>>

\* select * from user_stats
ReadStats(r) ==
    /\ submits[r].pc = "readStats"
    /\ submits' = [submits EXCEPT ![r] =
                      [@ EXCEPT !.pc = "writeStats",
                                !.existingStats = user_stats[submits[r].userId]]]
    /\ UNCHANGED <<session, calc, profiles, signup, user_stats, pp_history,
                   global_leaderboard>>

\* update the row that was read, or insert one if none was read; an insert
\* that meets a row inserted meanwhile fails on the primary key and is logged
WriteStats(r) ==
    LET s == submits[r]
        row == user_stats[s.userId]
    IN /\ s.pc = "writeStats"
       /\ user_stats' =
             IF s.existingStats.exists
             THEN [user_stats EXCEPT ![s.userId] =
                      UpdateStats(s.existingStats, s.effectivePP)]
             ELSE IF row.exists THEN user_stats
             ELSE [user_stats EXCEPT ![s.userId] =
                      [exists |-> TRUE, total_pp |-> s.effectivePP, total_plays |-> 1]]
       /\ submits' = [submits EXCEPT ![r].pc = "refresh"]
       /\ UNCHANGED <<session, calc, profiles, signup, pp_history, global_leaderboard>>

\* updateChallengeMetadata (no table modelled here) and the RPC
\* update_global_leaderboard, whose error is logged
RefreshLeaderboard(r, ok) ==
    /\ submits[r].pc = "refresh"
    /\ global_leaderboard' =
          IF ok
          THEN [u \in Users |->
                   IF user_stats[u].exists
                   THEN [exists |-> TRUE, total_pp |-> user_stats[u].total_pp,
                         rank_tier |-> SqlRankTier(user_stats[u].total_pp)]
                   ELSE global_leaderboard[u]]
          ELSE global_leaderboard
    /\ submits' = [submits EXCEPT ![r].pc = "respond"]
    /\ UNCHANGED <<session, calc, profiles, signup, user_stats, pp_history>>

\* the final reads, the upsert of a missing leaderboard entry and res.json
Respond(r) ==
    LET s == submits[r]
        finalUserStats == user_stats[s.userId]
    IN /\ s.pc = "respond"
       /\ global_leaderboard' =
             IF global_leaderboard[s.userId].exists THEN global_leaderboard
             ELSE [global_leaderboard EXCEPT ![s.userId] =
                      [exists |-> TRUE,
                       total_pp |-> IF TotalPPOf(finalUserStats) # 0
                                    THEN TotalPPOf(finalUserStats) ELSE s.effectivePP,
                       rank_tier |-> IF finalUserStats.exists
                                     THEN getPlayerRank(finalUserStats.total_pp)
                                     ELSE "null"]]
       /\ submits' = [submits EXCEPT ![r] = [@ EXCEPT !.pc = "done", !.status = 200]]
       /\ UNCHANGED <<session, calc, profiles, signup, user_stats, pp_history>>

NextSubmit ==
    \E r \in Requests :
        \/ \E userId \in Users, totalPP \in PPValues : SubmitScore(r, userId, totalPP)
        \/ \E ok \in BOOLEAN : InsertScore(r, ok)
        \/ ReadTotal(r)
        \/ InsertHistory(r)
        \/ ReadStats(r)
        \/ WriteStats(r)
        \/ \E ok \in BOOLEAN : RefreshLeaderboard(r, ok)
        \/ Respond(r)

SpecSubmit == InitScoring /\ [][NextSubmit]_vars

\* ================================================================ claims
LastIndex == Len(referenceSequence) - 1
Live(k) == ~detectors[k].closed
\* a frame of detector k that runs the scorer to its end
Scored(k, landmarks, raw) ==
    /\ OnResults(k, landmarks, raw)
    /\ Len(detectors[k].referenceSequence) > 0
    /\ ~Throws(landmarks)
ThresholdHoldMode == autoSkip = 0 /\ ~disableAdvancement
AutoSkipMode == autoSkip > 0 /\ ~disableAdvancement

\* C1: with a non-empty reference sequence currentStepIndex is always within
\* [0, len - 1], whatever frames, nextStep, prevStep, goToStep(i) and reset
\* calls are interleaved; with an empty reference sequence it stays 0.
C1_StepInRange ==
    /\ IF Len(referenceSequence) = 0
       THEN stepRef = 0
       ELSE stepRef >= 0 /\ stepRef <= LastIndex
    /\ currentStep = stepRef

\* the last step of a two-step reference, reached and scored
C1_Witness ==
    /\ Len(referenceSequence) >= 2
    /\ stepRef = LastIndex
    /\ ArrGet(perStepBestRef, LastIndex) > 0

\* C2: after stop(), a detector result delivered late changes nothing:
\* currentStepIndex, bestScorePerStep, consecutiveMatchFrames, the current
\* score and the shared current-pose value keep their values.
C2_LateResultChangesNothing ==
    [][\A k \in 1..Len(detectors), landmarks \in Landmarks, raw \in RawLevels :
          (detectors[k].closed /\ OnResults(k, landmarks, raw))
              => UNCHANGED <<stepRef, perStepBestRef, framesAboveRef, currentScore,
                             currentPose, windowPose>>]_vars

\* C3: for any sequence of start() and stop() calls at most one
\* detector/camera pair delivers frames into the session's scoring state.
C3_OneFrameSource ==
    Cardinality({k \in 1..Len(detectors) : Live(k)}) <= 1

\* C4: in threshold-hold mode a frame advances currentStepIndex by 1, capped
\* at the last index, exactly when the consecutive frames at or above the
\* threshold, this one included, have reached holdFrames; that advance sets
\* consecutiveMatchFrames to 0 and stepStartTimestamp to now; any other frame
\* leaves currentStepIndex unchanged.
C4_HoldAdvance ==
    [][\A k \in 1..Len(detectors), landmarks \in Landmarks, raw \in RawLevels :
          (ThresholdHoldMode /\ Scored(k, landmarks, raw)) =>
              IF /\ GatedSim(landmarks, raw, referenceSequence) >= Threshold
                 /\ framesAboveRef + 1 >= Hold
              THEN /\ stepRef' = (IF stepRef < LastIndex THEN stepRef + 1 ELSE LastIndex)
                   /\ framesAboveRef' = 0
                   /\ stepStartRef' = now
              ELSE /\ stepRef' = stepRef
                   /\ stepStartRef' = stepStartRef]_vars

\* one more matching frame completes the hold on step 0 of a longer reference
C4_Witness ==
    /\ ThresholdHoldMode
    /\ framesAboveRef = Hold - 1
    /\ stepRef = 0
    /\ Len(referenceSequence) >= 2
    /\ \E k \in 1..Len(detectors) : Live(k)

\* C5: in auto-skip mode a frame advances the step if and only if
\* now - stepStartTimestamp >= autoSkip seconds, never on the match count,
\* and the frame's similarity is folded into the best score of the step being
\* completed.
C5_AutoSkipAdvance ==
    [][\A k \in 1..Len(detectors), landmarks \in Landmarks, raw \in RawLevels :
          (AutoSkipMode /\ Scored(k, landmarks, raw)) =>
              IF (now - stepStartRef) * TickMs >= autoSkip * 1000
              THEN /\ stepRef' = (IF stepRef < LastIndex THEN stepRef + 1 ELSE LastIndex)
                   /\ stepStartRef' = now
                   /\ ArrGet(perStepBestRef', stepRef) >= GatedSim(landmarks, raw, referenceSequence)
                   /\ ArrGet(perStepBestRef', stepRef) >= OrZero(ArrGet(perStepBestRef, stepRef))
              ELSE /\ stepRef' = stepRef
                   /\ stepStartRef' = stepStartRef]_vars

\* step 1 entered by a frame: nothing was scored on it yet, and the match
\* count of the frames on step 0 is still standing
C5_Witness ==
    /\ AutoSkipMode
    /\ stepRef = 1
    /\ stepStartRef = now
    /\ framesAboveRef >= 1
    /\ ArrGet(perStepBestRef, 0) = 10000
    /\ ArrGet(perStepBestRef, 1) = 0

C7_GoToStep ==
    [][\A i \in StepArgs :
          goToStep(i) =>
              IF Len(referenceSequence) > 0
              THEN /\ stepRef' = (IF i < 0 THEN 0 ELSE IF i > LastIndex THEN LastIndex ELSE i)
                   /\ framesAboveRef' = 0
                   /\ stepStartRef' = now
                   /\ perStepBestRef' = perStepBestRef
              ELSE UNCHANGED vars]_vars

\* the last step entered from outside, later than the first tick, with the
\* best scores of step 0 kept
C7_Witness ==
    /\ disableAdvancement
    /\ Len(referenceSequence) >= 2
    /\ stepRef = LastIndex
    /\ framesAboveRef = 0
    /\ stepStartRef = now
    /\ now >= 1
    /\ ArrGet(perStepBestRef, 0) = 10000

\* C8: every frame scored while Running against a non-empty reference
\* sequence sets bestScorePerStep[s] to max(previous value, the frame's gated
\* similarity), s being the step current when the frame arrived; each entry
\* lies in [0,1] and never decreases between two resets.
C8_BestIsMax ==
    [][/\ \A k \in 1..Len(detectors), landmarks \in Landmarks, raw \in RawLevels :
             (isRunning /\ Scored(k, landmarks, raw)) =>
                 LET sim == GatedSim(landmarks, raw, referenceSequence)
                     prev == OrZero(ArrGet(perStepBestRef, stepRef))
                 IN ArrGet(perStepBestRef', stepRef) = (IF sim > prev THEN sim ELSE prev)
       /\ \A j \in 1..Len(perStepBestRef') :
             perStepBestRef'[j] # Undefined =>
                 perStepBestRef'[j] >= 0 /\ perStepBestRef'[j] <= 10000
       /\ ~reset => \A i \in 0..(Len(perStepBestRef) - 1) :
             OrZero(ArrGet(perStepBestRef', i)) >= OrZero(ArrGet(perStepBestRef, i))]_vars

\* a weaker frame came after the best one of the only step
C8_Witness ==
    /\ isRunning
    /\ Len(referenceSequence) = 1
    /\ ArrGet(perStepBestRef, 0) = 10000
    /\ currentScore = 50
    /\ lastPoseRef # Null

\* C9: reset() leaves bestScorePerStep as zeros of the reference sequence's
\* length, currentStepIndex = 0, consecutiveMatchFrames = 0 and
\* stepStartTimestamp = now.
C9_ResetZeros ==
    [][reset =>
          /\ perStepBestRef' = Zeros(Len(referenceSequence))
          /\ stepRef' = 0
          /\ framesAboveRef' = 0
          /\ stepStartRef' = now]_vars

\* C10: in every reachable state bestScorePerStep has exactly
\* len(referenceSequence) entries, each a number in [0,1], none missing.
C10_BestShape ==
    /\ Len(perStepBestRef) = Len(referenceSequence)
    /\ \A j \in 1..Len(perStepBestRef) :
          perStepBestRef[j] >= 0 /\ perStepBestRef[j] <= 10000

\* C11: start() called from Idle or Stopped moves the session to Running,
\* sets consecutiveMatchFrames to 0 and leaves bestScorePerStep and
\* currentStepIndex exactly as they were.
C11_StartResetsCount ==
    [][(start /\ videoRef /\ ~isRunning) =>
          /\ isRunning'
          /\ framesAboveRef' = 0
          /\ perStepBestRef' = perStepBestRef
          /\ stepRef' = stepRef]_vars

\* C12: with an empty reference sequence every processed frame reports score
\* 0, raises no error and leaves currentStepIndex, consecutiveMatchFrames and
\* bestScorePerStep unchanged, so the final per-step score array is empty.
C12_EmptyReference ==
    [][\A k \in 1..Len(detectors), landmarks \in Landmarks, raw \in RawLevels :
          (Len(referenceSequence) = 0 /\ OnResults(k, landmarks, raw)) =>
              /\ currentScore' = 0
              /\ currentPose' = landmarks
              /\ stepRef' = stepRef
              /\ framesAboveRef' = framesAboveRef
              /\ perStepBestRef' = perStepBestRef
              /\ perStepBestRef' = <<>>
              /\ perStepScores' = <<>>]_vars

\* a frame with a list lacking the hip indices was processed against an empty
\* reference
C12_Witness ==
    /\ Len(referenceSequence) = 0
    /\ isRunning
    /\ currentPose.n = ShortLen
    /\ currentScore = 0
    /\ perStepBestRef = <<>>

\* C13: processing a frame never raises an error out of the frame callback,
\* for any live landmark list of 0 to 33 entries, those of 1 to 24 entries
\* included; the frame yields a numeric similarity in [0,1] (the score of the
\* frame is set from it and the frame becomes the previous pose) and the
\* session keeps running.
C13_FrameNeverThrows ==
    [][\A k \in 1..Len(detectors), landmarks \in Landmarks, raw \in RawLevels :
          OnResults(k, landmarks, raw) =>
              /\ isRunning' = isRunning
              /\ Len(referenceSequence) > 0 =>
                    /\ lastPoseRef' = landmarks
                    /\ currentScore' \in 0..100
                    /\ currentScore' = Score(GatedSim(landmarks, raw, referenceSequence))]_vars

\* a full live pose that coincides with the target of the current step
IdenticalToTarget(landmarks, raw) ==
    /\ landmarks.n = FullLen
    /\ landmarks.pos = referenceSequence[stepRef + 1]
    /\ raw = 10000

\* the previous frame, if any, was the same pose or the previous step's target
ExampleRun(landmarks) ==
    \/ lastPoseRef = Null
    \/ lastPoseRef = landmarks
    \/ stepRef > 0 /\ lastPoseRef.n = FullLen /\ lastPoseRef.pos = referenceSequence[stepRef]

\* C14: with a two-step reference [A, B] in threshold-hold mode, holdFrames 4
\* and matchThreshold 0.75, frames identical to the target of the current
\* step each record a best score of about 1.0 for that step and count towards
\* the hold, so that the step becomes 1 on the 4th frame identical to A.
C14_EndToEnd ==
    [][\A k \in 1..Len(detectors), landmarks \in Landmarks, raw \in RawLevels :
          (/\ ThresholdHoldMode
           /\ Len(referenceSequence) = 2
           /\ Scored(k, landmarks, raw)
           /\ IdenticalToTarget(landmarks, raw)
           /\ ExampleRun(landmarks)) =>
              /\ ArrGet(perStepBestRef', stepRef) = 10000
              /\ IF framesAboveRef + 1 >= Hold
                 THEN stepRef' = Min(stepRef + 1, LastIndex)
                 ELSE framesAboveRef' = framesAboveRef + 1 /\ stepRef' = stepRef]_vars

\* C15: with a two-step reference and autoSkip = 1 second the frames of a
\* session advance the step once, to step 1, and not before 1 second has
\* elapsed since the session was started on step 0: at the moment of start()
\* less than autoSkip counts as elapsed on the step.
C15_AutoSkipExample ==
    [][(AutoSkipMode /\ autoSkip = 1 /\ Len(referenceSequence) = 2) =>
          /\ (start /\ videoRef /\ ~isRunning /\ stepRef = 0) =>
                (now' - stepStartRef') * TickMs < AutoSkipMs(autoSkip)
          /\ \A k \in 1..Len(detectors), landmarks \in Landmarks, raw \in RawLevels :
                OnResults(k, landmarks, raw) =>
                    /\ stepRef' >= stepRef
                    /\ stepRef' <= 1]_vars

\* C16: motion-gate suppression: when the target of the current step differs
\* from the previous step's target and the live landmarks are the same on
\* every frame (or there is no previous frame), the similarity recorded for
\* the frame is at most 0.5 times the ungated aggregate similarity.
C16_GateSuppresses ==
    (/\ calc.op = "gate"
     /\ calc.last = Null \/ calc.last = calc.landmarks
     /\ RefMotion(calc.ref, calc.step) > 0)
        => calc.out * 2 <= calc.sim

\* a perfect match held still on the second step is halved
C16_Witness ==
    /\ calc.op = "gate"
    /\ calc.last = calc.landmarks
    /\ calc.landmarks.n = FullLen
    /\ calc.step = 1
    /\ RefMotion(calc.ref, calc.step) > 0
    /\ calc.sim = 10000
    /\ calc.out = 5000

\* C17: the aggregator called on an empty per-step score array returns
\* accuracy 0, consistency 0, timing at its default (0.5 when no timing data
\* is given), style 0 and finalScorePercent 0.
C17_EmptyScores ==
    (calc.op = "score" /\ Len(calc.args.stepScores) = 0) =>
        /\ calc.out.breakdown.accuracy = 0
        /\ calc.out.breakdown.consistency = 0
        /\ Len(calc.args.timingData) = 0 => calc.out.breakdown.timing = 50
        /\ calc.out.breakdown.style = 0
        /\ calc.out.finalScore = 0

\* C18: for per-step scores in [0,1] or null, timing entries in [0,1], any
\* reference sequence and any history with personalBest in [0,100] and
\* currentStreak >= 0: accuracy, consistency, timing, style and finalScore
\* are each within 0..100, and totalPP >= 0.
C18_Ranges ==
    /\ calc.op = "score" =>
          /\ calc.out.breakdown.accuracy \in 0..100
          /\ calc.out.breakdown.consistency \in 0..100
          /\ calc.out.breakdown.timing \in 0..100
          /\ calc.out.breakdown.style \in 0..100
          /\ calc.out.finalScore \in 0..100
    /\ calc.op = "points" => calc.out.totalPP >= 0

\* a perfect step next to a missing one on the hardest difficulty: the
\* multiplied score is capped at 100
C18_Witness ==
    /\ calc.op = "score"
    /\ calc.args.stepScores = <<10000, Undefined>>
    /\ calc.out.difficulty = "EXPERT"
    /\ calc.out.finalScore = 100
    /\ calc.out.breakdown.style = 65

C20_Identity ==
    (calc.op = "compare" /\ calc.live = calc.target /\ calc.live.vis = 100) =>
        /\ calc.out = 10000
        /\ \A idx \in DOMAIN WeightMap : calc.sims[idx] = 10000
        /\ calc.spread = 10000

\* C21 (as stated): createDefaultProfile makes at most maxRetries insert
\* attempts and then returns; it returns {data, error: null} as soon as one
\* insert succeeds and otherwise {data: null, error} with a non-null error;
\* a new username is tried only after a duplicate-username failure.
C21_ProfileResult ==
    /\ signup.inserts <= signup.maxRetries
    /\ signup.failure = "ok" => signup.pc = "returned"
    /\ signup.pc = "returned" =>
          \/ signup.failure = "ok" /\ signup.data # 0 /\ signup.error = "null"
          \/ signup.failure # "ok" /\ signup.data = 0 /\ signup.error # "null"
C21_Retried == signup.inserts >= 1 /\ signup'.inserts = signup.inserts + 1
C21_RetryOnlyAfterDuplicate ==
    /\ []C21_ProfileResult
    /\ [][C21_Retried => signup'.failure = "duplicate_username"]_vars
\* C21 (amended): the same bounds and results, but a new username is tried
\* after every failed insert, whether the failure is a duplicate username,
\* another error object or a rejected promise, as long as fewer than
\* maxRetries inserts have been made.
C21_CreateDefaultProfile ==
    /\ []C21_ProfileResult
    /\ [][(C21_Retried =>
              /\ signup'.failure \in {"duplicate_username", "error", "rejected"}
              /\ signup.inserts < signup.maxRetries)
          /\ (signup.pc = "insert" /\ signup'.failure # "ok"
                 /\ signup.inserts < signup.maxRetries
               => signup'.pc = "insert" /\ signup'.inserts = signup.inserts + 1)]_vars
\* the fifth insert was issued right after an insert failed on an error that
\* is no duplicate username
C21_Witness ==
    /\ signup.pc = "insert"
    /\ signup.failure = "error"
    /\ signup.maxRetries = DefaultMaxRetries
    /\ signup.inserts = DefaultMaxRetries

\* C22: after any step advance, whether caused by threshold-hold, by the
\* auto-skip timeout, or by nextStep, prevStep or goToStep,
\* consecutiveMatchFrames is 0; and after any frame whose similarity is below
\* the threshold it is 0.
C22_CountResetOnAdvance ==
    [][/\ stepRef' # stepRef => framesAboveRef' = 0
       /\ \A k \in 1..Len(detectors), landmarks \in Landmarks, raw \in RawLevels :
             (Scored(k, landmarks, raw)
                /\ GatedSim(landmarks, raw, detectors[k].referenceSequence) < Threshold)
                 => framesAboveRef' = 0]_vars

\* C23: whatever the configuration, a single processed frame changes
\* currentStepIndex by at most one step: the threshold-hold rule and the
\* auto-skip rule never both advance the step on the same frame.
C23_OneAdvancePerFrame ==
    [][\A k \in 1..Len(detectors), landmarks \in Landmarks, raw \in RawLevels :
          OnResults(k, landmarks, raw) =>
              LET d == detectors[k]
                  sim == GatedSim(landmarks, raw, d.referenceSequence)
                  hold == HoldReached(d, CountFrame(sim, framesAboveRef))
                  skip == AutoSkipDue(d, IF hold THEN now ELSE stepStartRef)
              IN /\ Abs(stepRef' - stepRef) <= 1
                 /\ ~EmptyReference(d.referenceSequence) /\ ~Throws(landmarks)
                       => ~(hold /\ skip)]_vars

\* the completed hold has advanced the step from 0 to 1 of a reference with
\* a further step ahead, in a session where only frames move the step
C23_Witness ==
    /\ ThresholdHoldMode
    /\ Len(referenceSequence) = MaxSteps + 1
    /\ stepRef = 1
    /\ framesAboveRef = 0
    /\ stepStartRef = now
    /\ ArrGet(perStepBestRef, 0) >= Threshold

\* C24 (as stated): the joint weights used for the aggregate similarity,
\* together with the shoulder-spread weight, sum to exactly 1.0.
C24_WeightsSumToOne ==
    calc.op = "compare" =>
        /\ TotalWeight(WeightMap, ShoulderSpreadWeight) = 100
        /\ TotalWeight(WeightMapSecond, ShoulderSpreadWeightSecond) = 100
\* the similarities that enter the weighted sum of the last comparison
C24_Terms ==
    {IF calc.sims[idx] # Undefined THEN calc.sims[idx] ELSE MissingSim :
        idx \in DOMAIN WeightMap} \cup {calc.spread}
\* C24 (amended): the joint weights together with the shoulder-spread weight
\* sum to 1.30 (1.35 in the second variant); the aggregate divides the
\* weighted sum by that total, so the weights as applied sum to 1: the
\* aggregate lies between the smallest and the largest similarity that
\* enters it, and equals them when they are all equal.
C24_WeightsNormalised ==
    calc.op = "compare" =>
        /\ TotalWeight(WeightMap, ShoulderSpreadWeight) = 130
        /\ TotalWeight(WeightMapSecond, ShoulderSpreadWeightSecond) = 135
        /\ \E lo \in C24_Terms, hi \in C24_Terms :
              /\ \A t \in C24_Terms : lo <= t /\ t <= hi
              /\ lo <= calc.out /\ calc.out <= hi
\* a comparison of fully visible poses in which one weighted joint matches
\* exactly and another sits at the floor
C24_Witness ==
    /\ calc.op = "compare"
    /\ \E idx \in DOMAIN WeightMap : calc.sims[idx] = 10000
    /\ \E idx \in DOMAIN WeightMap : calc.sims[idx] = FloorSim
    /\ calc.out > FloorSim /\ calc.out < 10000
    /\ calc.live.vis = 100 /\ calc.target.vis = 100

\* C25: the accuracy component is the mean of the non-null entries of the
\* per-step score array (null or missing entries are left out of both the sum
\* and the count) and is 0 for an empty array; the same value is obtained
\* wherever the final accuracy is computed from the per-step scores.
C25_Accuracy ==
    calc.op = "accuracy" =>
        LET valid == SelectSeq(calc.stepScores, LAMBDA x : x # Undefined)
            mean == IF Len(valid) = 0 THEN 0
                    ELSE Percent(SumSeq(valid) \div Len(valid))
        IN /\ calc.server = mean
           /\ calc.basic = mean
           /\ calc.page = mean

\* C26: if the reference sequence (or the advancement configuration) is
\* replaced while the session is Running, every later frame is scored against
\* the new sequence and currentStepIndex stays within [0, len(new sequence)-1];
\* no frame is processed with the sequence captured when start() was called.
C26_FramesUseCurrentProps ==
    [][\A k \in 1..Len(detectors), landmarks \in Landmarks, raw \in RawLevels :
          (isRunning /\ k = poseRef /\ OnResults(k, landmarks, raw)) =>
              /\ detectors[k].referenceSequence = referenceSequence
              /\ detectors[k].autoSkip = autoSkip
              /\ IF Len(referenceSequence) = 0
                 THEN stepRef' = 0
                 ELSE stepRef' >= 0 /\ stepRef' <= LastIndex]_vars

\* C27: for any interleaving of two /api/submit-score requests for the same
\* user that both succeed, the user's user_stats.total_pp afterwards equals
\* its value before plus the sum of the two requests' effective PP, and
\* total_plays has grown by 2 (no lost update).
C27_NoLostUpdate ==
    \A u \in Users :
        (\A r \in Requests :
            submits[r].pc = "done" /\ submits[r].status = 200 /\ submits[r].userId = u)
        => /\ user_stats[u].exists
           /\ user_stats[u].total_pp =
                 TotalPPOf(InitialStats[u]) + submits[1].effectivePP + submits[2].effectivePP
           /\ user_stats[u].total_plays = TotalPlaysOf(InitialStats[u]) + 2

\* C28: calculateLeaderboardPosition(score, allScores) returns, for every
\* score and every list of existing scores, a position between 1 and
\* len(allScores)+1 and a percentile between 0 and 100; a score lower than
\* every existing score gets the last position.
C28_PositionInRange ==
    calc.op = "position" =>
        LET n == Len(calc.allScores) IN
        /\ calc.out.position >= 1 /\ calc.out.position <= n + 1
        /\ calc.out.percentile >= 0 /\ calc.out.percentile <= 100
        /\ (\A k \in 1..n : calc.allScores[k] > calc.score) => calc.out.position = n + 1

\* C29: a processed frame changes at most one entry of bestScorePerStep, the
\* entry of the step that was current when the frame arrived; the entries of
\* all other steps are unchanged, also when the frame triggers a step advance.
C29_OneEntryPerFrame ==
    [][\A k \in 1..Len(detectors), landmarks \in Landmarks, raw \in RawLevels :
          OnResults(k, landmarks, raw) =>
              \A i \in 0..MaxSteps :
                  i # stepRef => ArrGet(perStepBestRef', i) = ArrGet(perStepBestRef, i)]_vars

\* the frame that completed the hold on step 0 raised the entry of step 0 and
\* advanced to step 1, whose entry is untouched
C29_Witness ==
    /\ ThresholdHoldMode
    /\ stepRef = 1
    /\ framesAboveRef = 0
    /\ stepStartRef = now
    /\ lastPoseRef # Null
    /\ ArrGet(perStepBestRef, 0) = 10000
    /\ ArrGet(perStepBestRef, 1) = 0
    /\ \E k \in 1..Len(detectors) : Live(k)

\* C30: for every total_pp >= 0, the rank tier the server computes with
\* getPlayerRank equals the rank tier the database function
\* update_global_leaderboard writes for the same total_pp.
C30_SameTier ==
    calc.op = "rank" => calc.server = calc.database

====
